---- MODULE Spec2Model ----
(***************************************************************************)
(* Library management REST API: the Loan endpoints (LoanViewSet and        *)
(* LoanSerializer), the staff-only BookCopy endpoints, the Member          *)
(* endpoints, and the post-save handling of loans.  A request is one       *)
(* atomic step: permission check, object lookup, field validators,         *)
(* object-level validate(), save.  SpecRace splits the creation of a loan  *)
(* into its validation and its write, so that two requests interleave.     *)
(* The observable result of the last request is kept in `response`.        *)
(***************************************************************************)
EXTENDS Integers, FiniteSets, TLC

\* ------------------------------------------------------------- bounds
MaxDate == 2            \* dates are 0..MaxDate; the last one is in the future
MaxLoanId == 2          \* loans created in a behaviour of Spec
QuotaMaxLoanId == 6     \* loans created in a behaviour of SpecQuota
DatesMaxLoanId == 1     \* loans created in a behaviour of SpecDates
CopiesMaxLoanId == 1    \* loans created in a behaviour of SpecCopies
DeleteMaxLoanId == 2    \* loans created in a behaviour of SpecDelete

\* ------------------------------------------------------------- constants
max_loans == 5
None == 0 - 1           \* a null return_date / no serializer instance
Today == MaxDate - 1    \* timezone.now().date()
Dates == 0..MaxDate

CopyIds == {"c1", "c2"}
BookIds == {"b1", "b2"}
copy_ids == ("c1" :> "COPY-001") @@ ("c2" :> "COPY-002")   \* the copy_id of each copy
MemberIds == {"staff", "ann", "bob"}
Anonymous == "anon"
Principals == MemberIds \cup {Anonymous}
COPY_STATUS == {"available", "on_loan", "maintenance", "lost"}
WriteActions == {"create", "update", "partial_update", "destroy"}

VARIABLES
    members,    \* Member rows: pk -> [is_staff]
    copies,     \* BookCopy rows: pk -> [book, copy_id, status]
    loans,      \* Loan rows: pk -> [book_copy, member, loan_date, due_date, return_date]
    nextId,     \* next auto-increment Loan pk
    response,   \* the last response: [op, status, errors, body]
    pending     \* loan-create requests in flight: request -> [stage, data, status, id]

vars == <<members, copies, loans, nextId, response, pending>>

\* ------------------------------------------------------------- helpers
\* dict.get(key, default)
Get(data, key, default) == IF key \in DOMAIN data THEN data[key] ELSE default

Resp(op, status, errors, body) ==
    [op |-> op, status |-> status, errors |-> errors, body |-> body]

OpenLoans == {id \in DOMAIN loans : loans[id].return_date = None}
OpenLoansOfMember(m) == {id \in OpenLoans : loans[id].member = m}
OpenLoansOfCopy(c) == {id \in OpenLoans : loans[id].book_copy = c}

\* ------------------------------------------------------------- permissions
IsAuthenticated(user) == user \in DOMAIN members

IsStaff_AnyMember(user) == user \in DOMAIN members

IsStaff(user) == user \in DOMAIN members /\ members[user].is_staff

\* LoanViewSet.get_permissions followed by the permission check:
\* 0 when the request may proceed, else the status of the denial
LoanPermissionDenied(user, action) ==
    IF ~IsAuthenticated(user) THEN 401
    ELSE IF action \in WriteActions /\ ~IsStaff(user) THEN 403
    ELSE 0

get_queryset_All(user) == DOMAIN loans

\* LoanViewSet.get_queryset
get_queryset(user) ==
    IF IsStaff(user) THEN DOMAIN loans
    ELSE {id \in DOMAIN loans : loans[id].member = user}

\* ------------------------------------------------------------- serializer
validate_loan_date(data) ==
    "loan_date" \in DOMAIN data => data.loan_date # None /\ data.loan_date <= Today

validate_due_date(data) ==
    ("due_date" \in DOMAIN data /\ Get(data, "loan_date", None) # None)
        => ~(data.due_date < data.loan_date)

validate_return_date(data) ==
    ("return_date" \in DOMAIN data /\ data.return_date # None)
        => ~(data.return_date > Today)

\* the fields whose field-level validation fails
FieldErrors(data, partial) ==
    {f \in {"book_copy", "member", "due_date"} : ~partial /\ f \notin DOMAIN data}
    \cup {f \in {"book_copy"} : f \in DOMAIN data /\ data[f] \notin DOMAIN copies}
    \cup {f \in {"member"} : f \in DOMAIN data /\ data[f] \notin DOMAIN members}
    \cup {f \in {"loan_date"} : ~validate_loan_date(data)}
    \cup {f \in {"due_date"} : ~validate_due_date(data)}
    \cup {f \in {"return_date"} : ~validate_return_date(data)}

\* validate without the availability check
validate_NoAvailability(data, instance) ==
    LET member == IF "member" \in DOMAIN data THEN data.member
                  ELSE loans[instance].member
        active_loans == Cardinality(OpenLoansOfMember(member))
    IN  IF active_loans >= max_loans /\ instance = None THEN {"member"} ELSE {}

\* validate with the limit compared by > instead of >=
validate_OffByOne(data, instance) ==
    LET book_copy == IF "book_copy" \in DOMAIN data THEN data.book_copy
                     ELSE loans[instance].book_copy
        member == IF "member" \in DOMAIN data THEN data.member
                  ELSE loans[instance].member
        active_loans == Cardinality(OpenLoansOfMember(member))
    IN  IF copies[book_copy].status # "available" /\ instance = None
        THEN {"book_copy"}
        ELSE IF active_loans > max_loans /\ instance = None
        THEN {"member"}
        ELSE {}

\* LoanSerializer.validate: the field the raised error names, if any
validate(data, instance) ==
    LET book_copy == IF "book_copy" \in DOMAIN data THEN data.book_copy
                     ELSE loans[instance].book_copy
        member == IF "member" \in DOMAIN data THEN data.member
                  ELSE loans[instance].member
        active_loans == Cardinality(OpenLoansOfMember(member))
    IN  IF copies[book_copy].status # "available" /\ instance = None
        THEN {"book_copy"}
        ELSE IF active_loans >= max_loans /\ instance = None
        THEN {"member"}
        ELSE {}

\* is_valid(): the errors of the 400 response, {} when the data is valid
Errors(data, instance, partial) ==
    LET errors == FieldErrors(data, partial)
    IN  IF errors # {} THEN errors ELSE validate(data, instance)

\* ------------------------------------------------------------- post_save
\* the handlers connected when the app is ready
LoanSaved(old, new, created) ==
    IF created
    THEN [copies EXCEPT ![new.book_copy].status = "on_loan"]
    ELSE IF old.return_date = None /\ new.return_date # None
    THEN [copies EXCEPT ![new.book_copy].status = "available"]
    ELSE copies

\* ------------------------------------------------------------- requests
\* The result of handling one request in the current state: the response and
\* the rows as the handler leaves them.
Outcome(resp, newLoans, newCopies, newNextId) ==
    [response |-> resp, loans |-> newLoans, copies |-> newCopies, nextId |-> newNextId]

Rejected(resp) == Outcome(resp, loans, copies, nextId)

\* the row ModelSerializer.create() inserts: omitted fields take the model defaults
NewLoan(data) ==
    [book_copy |-> data.book_copy,
     member |-> data.member,
     loan_date |-> Get(data, "loan_date", Today),
     due_date |-> data.due_date,
     return_date |-> Get(data, "return_date", None)]

\* the row ModelSerializer.update() saves: omitted fields keep their value
UpdatedLoan(old, data) == [f \in DOMAIN old |-> Get(data, f, old[f])]

\* create that answers 201 without inserting the row
create_NotPersisted(user, data) ==
    LET denied == LoanPermissionDenied(user, "create")
        errors == Errors(data, None, FALSE)
    IN  IF denied # 0 THEN Rejected(Resp("create", denied, {}, {}))
        ELSE IF errors # {} THEN Rejected(Resp("create", 400, errors, {}))
        ELSE Outcome(Resp("create", 201, {}, {nextId}),
                     loans,
                     LoanSaved(NewLoan(data), NewLoan(data), TRUE),
                     nextId + 1)

\* POST /loans/
create(user, data) ==
    LET denied == LoanPermissionDenied(user, "create")
        errors == Errors(data, None, FALSE)
        new == NewLoan(data)
    IN  IF denied # 0 THEN Rejected(Resp("create", denied, {}, {}))
        ELSE IF errors # {} THEN Rejected(Resp("create", 400, errors, {}))
        ELSE Outcome(Resp("create", 201, {}, {nextId}),
                     loans @@ (nextId :> new),
                     LoanSaved(new, new, TRUE),
                     nextId + 1)

\* PUT /loans/{id}/ (partial = FALSE), PATCH /loans/{id}/ (partial = TRUE)
update(user, id, data, partial) ==
    LET op == IF partial THEN "partial_update" ELSE "update"
        denied == LoanPermissionDenied(user, op)
        errors == Errors(data, id, partial)
        new == UpdatedLoan(loans[id], data)
    IN  IF denied # 0 THEN Rejected(Resp(op, denied, {}, {}))
        ELSE IF id \notin get_queryset(user) THEN Rejected(Resp(op, 404, {}, {}))
        ELSE IF errors # {} THEN Rejected(Resp(op, 400, errors, {}))
        ELSE Outcome(Resp(op, 200, {}, {id}),
                     [loans EXCEPT ![id] = new],
                     LoanSaved(loans[id], new, FALSE),
                     nextId)

\* DELETE /loans/{id}/
destroy(user, id) ==
    LET denied == LoanPermissionDenied(user, "destroy")
    IN  IF denied # 0 THEN Rejected(Resp("destroy", denied, {}, {}))
        ELSE IF id \notin get_queryset(user) THEN Rejected(Resp("destroy", 404, {}, {}))
        ELSE Outcome(Resp("destroy", 204, {}, {}),
                     [i \in DOMAIN loans \ {id} |-> loans[i]],
                     copies,
                     nextId)

\* GET /loans/
list(user) ==
    LET denied == LoanPermissionDenied(user, "list")
    IN  IF denied # 0 THEN Rejected(Resp("list", denied, {}, {}))
        ELSE Rejected(Resp("list", 200, {}, get_queryset(user)))

\* GET /loans/{id}/
retrieve(user, id) ==
    LET denied == LoanPermissionDenied(user, "retrieve")
    IN  IF denied # 0 THEN Rejected(Resp("retrieve", denied, {}, {}))
        ELSE IF id \notin get_queryset(user) THEN Rejected(Resp("retrieve", 404, {}, {}))
        ELSE Rejected(Resp("retrieve", 200, {}, {id}))

\* PATCH /copies/{pk}/ carrying a status
copy_update(user, pk, status) ==
    IF ~IsAuthenticated(user) THEN Rejected(Resp("copy_update", 401, {}, {}))
    ELSE IF ~IsStaff(user) THEN Rejected(Resp("copy_update", 403, {}, {}))
    ELSE IF status \notin COPY_STATUS
    THEN Rejected(Resp("copy_update", 400, {"status"}, {}))
    ELSE Outcome(Resp("copy_update", 200, {}, {}),
                 loans,
                 [copies EXCEPT ![pk].status = status],
                 nextId)

\* a BookCopy row; the fields left out keep their model defaults
CopyRow(book, copy_id, status) == [book |-> book, copy_id |-> copy_id, status |-> status]

\* the serializer instance of a create request
NoInstance == ""

\* ------------------------------------------------------------- copies
\* BookCopyViewSet.permission_classes: 0 when the request may proceed
CopyPermissionDenied(user) ==
    IF ~IsAuthenticated(user) THEN 401
    ELSE IF ~IsStaff(user) THEN 403
    ELSE 0

\* the copies other than instance that have this copy_id, in any book
SameCopyId(copy_id, instance) ==
    {c \in DOMAIN copies \ {instance} : copies[c].copy_id = copy_id}

\* field-level validation of a BookCopy body
CopyFieldErrors(data, partial) ==
    {f \in {"book", "copy_id"} : ~partial /\ f \notin DOMAIN data}
    \cup {f \in {"book"} : f \in DOMAIN data /\ data[f] \notin BookIds}
    \cup {f \in {"status"} : f \in DOMAIN data /\ data[f] \notin COPY_STATUS}

\* BookCopySerializer.validate: copy_id and book come from the body or, when
\* the body omits them, from the instance; instance = NoInstance on create
copy_validate(data, instance) ==
    LET copy_id == IF "copy_id" \in DOMAIN data THEN data.copy_id
                   ELSE copies[instance].copy_id
        book == IF "book" \in DOMAIN data THEN data.book
                ELSE copies[instance].book
    IN  IF \E c \in SameCopyId(copy_id, instance) : copies[c].book = book
        THEN {"copy_id"}
        ELSE {}

CopyErrors(data, instance, partial) ==
    LET errors == CopyFieldErrors(data, partial)
    IN  IF errors # {} THEN errors ELSE copy_validate(data, instance)

NewCopy(data) == CopyRow(data.book, data.copy_id, Get(data, "status", "available"))
UpdatedCopy(old, data) == [f \in DOMAIN old |-> Get(data, f, old[f])]

\* POST /copies/; pk is the key the database gives the new row.  The INSERT
\* fails on the unique index of copy_id (IntegrityError, answered 500).
copy_create(user, pk, data) ==
    LET denied == CopyPermissionDenied(user)
        errors == CopyErrors(data, NoInstance, FALSE)
    IN  IF denied # 0 THEN Rejected(Resp("copy_create", denied, {}, {}))
        ELSE IF errors # {} THEN Rejected(Resp("copy_create", 400, errors, {}))
        ELSE IF SameCopyId(data.copy_id, NoInstance) # {}
        THEN Rejected(Resp("copy_create", 500, {}, {}))
        ELSE Outcome(Resp("copy_create", 201, {}, {pk}),
                     loans,
                     copies @@ (pk :> NewCopy(data)),
                     nextId)

\* PUT /copies/{pk}/ (partial = FALSE), PATCH /copies/{pk}/ (partial = TRUE)
copy_save(user, pk, data, partial) ==
    LET denied == CopyPermissionDenied(user)
        errors == CopyErrors(data, pk, partial)
        new == UpdatedCopy(copies[pk], data)
    IN  IF denied # 0 THEN Rejected(Resp("copy_save", denied, {}, {}))
        ELSE IF pk \notin DOMAIN copies THEN Rejected(Resp("copy_save", 404, {}, {}))
        ELSE IF errors # {} THEN Rejected(Resp("copy_save", 400, errors, {}))
        ELSE IF SameCopyId(new.copy_id, pk) # {}
        THEN Rejected(Resp("copy_save", 500, {}, {}))
        ELSE Outcome(Resp("copy_save", 200, {}, {pk}),
                     loans,
                     [copies EXCEPT ![pk] = new],
                     nextId)

\* Loan.book_copy is on_delete = PROTECT: the rows that block the delete of pk
CopyProtectedBy(pk) == {id \in DOMAIN loans : loans[id].book_copy = pk}

\* delete that removes the loans of the copy with it (on_delete = CASCADE)
copy_destroy_Cascade(user, pk) ==
    LET denied == CopyPermissionDenied(user)
    IN  IF denied # 0 THEN Rejected(Resp("copy_destroy", denied, {}, {}))
        ELSE IF pk \notin DOMAIN copies THEN Rejected(Resp("copy_destroy", 404, {}, {}))
        ELSE Outcome(Resp("copy_destroy", 204, {}, {}),
                     [i \in DOMAIN loans \ CopyProtectedBy(pk) |-> loans[i]],
                     [c \in DOMAIN copies \ {pk} |-> copies[c]],
                     nextId)

\* DELETE /copies/{pk}/; a ProtectedError is not handled and answers 500
copy_destroy(user, pk) ==
    LET denied == CopyPermissionDenied(user)
    IN  IF denied # 0 THEN Rejected(Resp("copy_destroy", denied, {}, {}))
        ELSE IF pk \notin DOMAIN copies THEN Rejected(Resp("copy_destroy", 404, {}, {}))
        ELSE IF CopyProtectedBy(pk) # {}
        THEN Rejected(Resp("copy_destroy", 500, {}, {}))
        ELSE Outcome(Resp("copy_destroy", 204, {}, {}),
                     loans,
                     [c \in DOMAIN copies \ {pk} |-> copies[c]],
                     nextId)

\* ------------------------------------------------------------- members
\* MemberViewSet.get_queryset
member_get_queryset(user) ==
    IF IsStaff(user) THEN DOMAIN members ELSE {m \in DOMAIN members : m = user}

\* IsSelfOrStaff.has_object_permission; the class has no has_permission, so
\* the view-level check admits every authenticated principal
IsSelfOrStaff(user, obj) == IsStaff(user) \/ obj = user

\* MemberSerializer field validation: username and password are required,
\* and the username of no other row may be taken.  A row is keyed by its
\* username.
MemberErrors(data, instance, partial) ==
    {f \in {"username", "password"} : ~partial /\ f \notin DOMAIN data}
    \cup {f \in {"username"} :
            f \in DOMAIN data /\ data[f] \in DOMAIN members \ {instance}}

\* fields = '__all__': is_staff is read from the body like any other field
NewMember(data) == [is_staff |-> Get(data, "is_staff", FALSE)]
UpdatedMember(old, data) == [f \in DOMAIN old |-> Get(data, f, old[f])]

MemberOutcome(resp, newMembers) == [response |-> resp, members |-> newMembers]
MemberRejected(resp) == MemberOutcome(resp, members)

\* the status of the denial of a request on the member pk, 0 when it proceeds:
\* authentication, then get_object() on get_queryset(), then the object check
MemberDenied(user, pk) ==
    IF ~IsAuthenticated(user) THEN 401
    ELSE IF pk \notin member_get_queryset(user) THEN 404
    ELSE IF ~IsSelfOrStaff(user, pk) THEN 403
    ELSE 0

\* GET /members/
member_list(user) ==
    IF ~IsAuthenticated(user) THEN MemberRejected(Resp("member_list", 401, {}, {}))
    ELSE MemberRejected(Resp("member_list", 200, {}, member_get_queryset(user)))

\* GET /members/me/
me(user) ==
    IF ~IsAuthenticated(user) THEN MemberRejected(Resp("me", 401, {}, {}))
    ELSE MemberRejected(Resp("me", 200, {}, {user}))

\* GET /members/{pk}/
member_retrieve(user, pk) ==
    LET denied == MemberDenied(user, pk)
    IN  IF denied # 0 THEN MemberRejected(Resp("member_retrieve", denied, {}, {}))
        ELSE MemberRejected(Resp("member_retrieve", 200, {}, {pk}))

\* POST /members/
member_create(user, data) ==
    LET errors == MemberErrors(data, NoInstance, FALSE)
    IN  IF ~IsAuthenticated(user) THEN MemberRejected(Resp("member_create", 401, {}, {}))
        ELSE IF errors # {} THEN MemberRejected(Resp("member_create", 400, errors, {}))
        ELSE MemberOutcome(Resp("member_create", 201, {}, {data.username}),
                           members @@ (data.username :> NewMember(data)))

\* PUT /members/{pk}/ (partial = FALSE), PATCH /members/{pk}/ (partial = TRUE)
member_update(user, pk, data, partial) ==
    LET denied == MemberDenied(user, pk)
        errors == MemberErrors(data, pk, partial)
    IN  IF denied # 0 THEN MemberRejected(Resp("member_update", denied, {}, {}))
        ELSE IF errors # {} THEN MemberRejected(Resp("member_update", 400, errors, {}))
        ELSE MemberOutcome(Resp("member_update", 200, {}, {pk}),
                           [members EXCEPT ![pk] = UpdatedMember(members[pk], data)])

\* Loan.member is on_delete = PROTECT: the rows that block the delete of pk
MemberProtectedBy(pk) == {id \in DOMAIN loans : loans[id].member = pk}

\* DELETE /members/{pk}/; a ProtectedError is not handled and answers 500
member_destroy(user, pk) ==
    LET denied == MemberDenied(user, pk)
    IN  IF denied # 0 THEN MemberRejected(Resp("member_destroy", denied, {}, {}))
        ELSE IF MemberProtectedBy(pk) # {}
        THEN MemberRejected(Resp("member_destroy", 500, {}, {}))
        ELSE MemberOutcome(Resp("member_destroy", 204, {}, {}),
                           [m \in DOMAIN members \ {pk} |-> members[m]])

\* the two connections that may each carry a loan-create request at a time
Requests == {"r1", "r2"}
Idle == [stage |-> "idle", data |-> [k \in {} |-> None], status |-> 0, id |-> 0]

\* ------------------------------------------------------------- concurrency
\* A loan-create request handled in two steps, as LoanViewSet.create runs
\* them: serializer.is_valid() reads the rows, serializer.save() writes.  No
\* transaction or lock joins the two, so steps of other requests come between.
InFlight(stage, data, status, id) ==
    [stage |-> stage, data |-> data, status |-> status, id |-> id]

RaceOutcome(resp, newLoans, newCopies, newNextId, request) ==
    [response |-> resp, loans |-> newLoans, copies |-> newCopies,
     nextId |-> newNextId, request |-> request]

\* is_valid(): a denied or invalid request is answered at once
race_validate(user, data) ==
    LET denied == LoanPermissionDenied(user, "create")
        errors == Errors(data, None, FALSE)
    IN  IF denied # 0
        THEN RaceOutcome(Resp("create", denied, {}, {}), loans, copies, nextId,
                         InFlight("done", data, denied, 0))
        ELSE IF errors # {}
        THEN RaceOutcome(Resp("create", 400, errors, {}), loans, copies, nextId,
                         InFlight("done", data, 400, 0))
        ELSE RaceOutcome(response, loans, copies, nextId,
                         InFlight("validated", data, 0, 0))

\* save() that validates again, in one transaction with the INSERT
race_save_Revalidated(data) ==
    LET errors == Errors(data, None, FALSE)
        new == NewLoan(data)
    IN  IF errors # {}
        THEN RaceOutcome(Resp("create", 400, errors, {}), loans, copies, nextId,
                         InFlight("done", data, 400, 0))
        ELSE RaceOutcome(Resp("create", 201, {}, {nextId}),
                         loans @@ (nextId :> new),
                         LoanSaved(new, new, TRUE),
                         nextId + 1,
                         InFlight("done", data, 201, nextId))

\* save(): the INSERT and its post_save handling, with no second look at the rows
race_save(data) ==
    LET new == NewLoan(data)
    IN  RaceOutcome(Resp("create", 201, {}, {nextId}),
                    loans @@ (nextId :> new),
                    LoanSaved(new, new, TRUE),
                    nextId + 1,
                    InFlight("done", data, 201, nextId))

Init ==
    /\ members = [m \in MemberIds |-> [is_staff |-> (m = "staff")]]
    /\ copies = [c \in CopyIds |-> CopyRow("b1", copy_ids[c], "available")]
    /\ loans = [id \in {} |-> None]
    /\ nextId = 1
    /\ response = Resp("none", 0, {}, {})
    /\ pending = [r \in Requests |-> Idle]

\* one action per endpoint: the state becomes the outcome o of the request
LoanCreate(user, data) ==
    \E o \in {create(user, data)} :
        /\ response' = o.response
        /\ loans' = o.loans
        /\ copies' = o.copies
        /\ nextId' = o.nextId
        /\ UNCHANGED <<members, pending>>

LoanUpdate(user, id, data, partial) ==
    \E o \in {update(user, id, data, partial)} :
        /\ response' = o.response
        /\ loans' = o.loans
        /\ copies' = o.copies
        /\ nextId' = o.nextId
        /\ UNCHANGED <<members, pending>>

LoanDestroy(user, id) ==
    \E o \in {destroy(user, id)} :
        /\ response' = o.response
        /\ loans' = o.loans
        /\ copies' = o.copies
        /\ nextId' = o.nextId
        /\ UNCHANGED <<members, pending>>

LoanList(user) ==
    \E o \in {list(user)} :
        /\ response' = o.response
        /\ loans' = o.loans
        /\ copies' = o.copies
        /\ nextId' = o.nextId
        /\ UNCHANGED <<members, pending>>

LoanRetrieve(user, id) ==
    \E o \in {retrieve(user, id)} :
        /\ response' = o.response
        /\ loans' = o.loans
        /\ copies' = o.copies
        /\ nextId' = o.nextId
        /\ UNCHANGED <<members, pending>>

CopyUpdate(user, pk, status) ==
    \E o \in {copy_update(user, pk, status)} :
        /\ response' = o.response
        /\ loans' = o.loans
        /\ copies' = o.copies
        /\ nextId' = o.nextId
        /\ UNCHANGED <<members, pending>>

CopyCreate(user, pk, data) ==
    \E o \in {copy_create(user, pk, data)} :
        /\ response' = o.response
        /\ loans' = o.loans
        /\ copies' = o.copies
        /\ nextId' = o.nextId
        /\ UNCHANGED <<members, pending>>

CopySave(user, pk, data, partial) ==
    \E o \in {copy_save(user, pk, data, partial)} :
        /\ response' = o.response
        /\ loans' = o.loans
        /\ copies' = o.copies
        /\ nextId' = o.nextId
        /\ UNCHANGED <<members, pending>>

CopyDestroy(user, pk) ==
    \E o \in {copy_destroy(user, pk)} :
        /\ response' = o.response
        /\ loans' = o.loans
        /\ copies' = o.copies
        /\ nextId' = o.nextId
        /\ UNCHANGED <<members, pending>>

MemberList(user) ==
    \E o \in {member_list(user)} :
        /\ response' = o.response
        /\ members' = o.members
        /\ UNCHANGED <<loans, copies, nextId, pending>>

MemberMe(user) ==
    \E o \in {me(user)} :
        /\ response' = o.response
        /\ members' = o.members
        /\ UNCHANGED <<loans, copies, nextId, pending>>

MemberRetrieve(user, pk) ==
    \E o \in {member_retrieve(user, pk)} :
        /\ response' = o.response
        /\ members' = o.members
        /\ UNCHANGED <<loans, copies, nextId, pending>>

MemberCreate(user, data) ==
    \E o \in {member_create(user, data)} :
        /\ response' = o.response
        /\ members' = o.members
        /\ UNCHANGED <<loans, copies, nextId, pending>>

MemberUpdate(user, pk, data, partial) ==
    \E o \in {member_update(user, pk, data, partial)} :
        /\ response' = o.response
        /\ members' = o.members
        /\ UNCHANGED <<loans, copies, nextId, pending>>

MemberDestroy(user, pk) ==
    \E o \in {member_destroy(user, pk)} :
        /\ response' = o.response
        /\ members' = o.members
        /\ UNCHANGED <<loans, copies, nextId, pending>>

RaceValidate(r, user, data) ==
    /\ pending[r].stage = "idle"
    /\ \E o \in {race_validate(user, data)} :
          /\ response' = o.response
          /\ pending' = [pending EXCEPT ![r] = o.request]
          /\ UNCHANGED <<members, copies, loans, nextId>>

RaceSave(r) ==
    /\ pending[r].stage = "validated"
    /\ \E o \in {race_save(pending[r].data)} :
          /\ response' = o.response
          /\ loans' = o.loans
          /\ copies' = o.copies
          /\ nextId' = o.nextId
          /\ pending' = [pending EXCEPT ![r] = o.request]
          /\ UNCHANGED members

\* ------------------------------------------------------------- request bodies
Borrowers == {"ann", "bob"}
Empty == [k \in {} |-> None]
Field(key, S) == {[k \in {key} |-> v] : v \in S}

\* complete bodies for a loan of a copy to a member, due today
FullBodies(Cs, Ms) ==
    {c @@ m @@ d : c \in Field("book_copy", Cs), m \in Field("member", Ms),
                   d \in Field("due_date", {Today})}

\* bodies that carry one field, or none
PatchBodies(Cs, Ms) ==
    {Empty} \cup Field("book_copy", Cs) \cup Field("member", Ms)
            \cup Field("return_date", {None, Today})

\* ------------------------------------------------------------- Spec
\* staff and members use the loan endpoints, starting with no loans and every
\* copy available
LoanIds == 1..MaxLoanId
SpecBodies == FullBodies(CopyIds, Borrowers) \cup Field("return_date", {None, Today})

Next ==
    \/ \E user \in MemberIds, data \in SpecBodies :
          nextId <= MaxLoanId /\ LoanCreate(user, data)
    \/ \E user \in MemberIds, id \in LoanIds, data \in SpecBodies, partial \in BOOLEAN :
          LoanUpdate(user, id, data, partial)
    \/ \E user \in MemberIds, id \in LoanIds : LoanDestroy(user, id)
    \/ \E user \in MemberIds : LoanList(user)
    \/ \E user \in MemberIds, id \in LoanIds : LoanRetrieve(user, id)

Spec == Init /\ [][Next]_vars

\* ------------------------------------------------------------- SpecCopies
\* staff, members and anonymous callers write loans and set the status of
\* copies; bodies may carry a loan_date in the future
CopiesLoanIds == 1..CopiesMaxLoanId
CopiesBodies ==
    FullBodies(CopyIds, {"ann"})
    \cup {b @@ ld : b \in FullBodies(CopyIds, {"ann"}), ld \in Field("loan_date", {Today + 1})}
    \cup PatchBodies(CopyIds, {"ann"})
StatusInputs == COPY_STATUS \cup {"sold"}

NextCopies ==
    \/ \E user \in Principals, data \in CopiesBodies :
          nextId <= CopiesMaxLoanId /\ LoanCreate(user, data)
    \/ \E user \in Principals, id \in CopiesLoanIds, data \in CopiesBodies, partial \in BOOLEAN :
          LoanUpdate(user, id, data, partial)
    \/ \E user \in Principals, id \in CopiesLoanIds : LoanDestroy(user, id)
    \/ \E user \in Principals, pk \in CopyIds, status \in StatusInputs :
          CopyUpdate(user, pk, status)

SpecCopies == Init /\ [][NextCopies]_vars

\* ------------------------------------------------------------- SpecQuota
\* staff lend, close, reopen and delete loans of one copy to one member
QuotaLoanIds == 1..QuotaMaxLoanId
QuotaBodies == FullBodies({"c1"}, {"ann"}) \cup Field("return_date", {None, Today})

NextQuota ==
    \/ \E data \in QuotaBodies :
          nextId <= QuotaMaxLoanId /\ LoanCreate("staff", data)
    \/ \E id \in QuotaLoanIds, data \in QuotaBodies, partial \in BOOLEAN :
          LoanUpdate("staff", id, data, partial)
    \/ \E id \in QuotaLoanIds : LoanDestroy("staff", id)

SpecQuota == Init /\ [][NextQuota]_vars

\* ------------------------------------------------------------- SpecDates
\* staff create and update loans of one copy to one member with every
\* combination of supplied and omitted dates
DatesLoanIds == 1..DatesMaxLoanId
DateBodies ==
    {b @@ ld @@ dd @@ rd :
        b \in {Empty, [book_copy |-> "c1", member |-> "ann"]},
        ld \in {Empty} \cup Field("loan_date", Dates),
        dd \in {Empty} \cup Field("due_date", Dates),
        rd \in {Empty} \cup Field("return_date", Dates \cup {None})}

NextDates ==
    \/ \E data \in DateBodies :
          nextId <= DatesMaxLoanId /\ LoanCreate("staff", data)
    \/ \E id \in DatesLoanIds, data \in DateBodies, partial \in BOOLEAN :
          LoanUpdate("staff", id, data, partial)
    \/ \E id \in DatesLoanIds : LoanDestroy("staff", id)

SpecDates == Init /\ [][NextDates]_vars

\* ------------------------------------------------------------- SpecMembers
\* staff, members, members created on the way and anonymous callers use the
\* member endpoints
NewUsernames == {"eve"}
AllMemberIds == MemberIds \cup NewUsernames
MemberPrincipals == AllMemberIds \cup {Anonymous}
MemberFullBodies ==
    {u @@ p @@ f : u \in Field("username", {"ann", "eve"}),
                   p \in Field("password", {"pw"}),
                   f \in {Empty} \cup Field("is_staff", BOOLEAN)}
MemberBodies == MemberFullBodies \cup {Empty} \cup Field("is_staff", BOOLEAN)

NextMembers ==
    \/ \E user \in MemberPrincipals : MemberList(user)
    \/ \E user \in MemberPrincipals : MemberMe(user)
    \/ \E user \in MemberPrincipals, pk \in AllMemberIds : MemberRetrieve(user, pk)
    \/ \E user \in MemberPrincipals, data \in MemberBodies : MemberCreate(user, data)
    \/ \E user \in MemberPrincipals, pk \in AllMemberIds, data \in MemberBodies,
          partial \in BOOLEAN : MemberUpdate(user, pk, data, partial)
    \/ \E user \in MemberPrincipals, pk \in AllMemberIds : MemberDestroy(user, pk)

SpecMembers == Init /\ [][NextMembers]_vars

\* ------------------------------------------------------------- SpecCatalog
\* staff, a member and anonymous callers create, update and delete copies of
\* two books
NewCopyIds == {"c3"}
AllCopyIds == CopyIds \cup NewCopyIds
CatalogPrincipals == {"staff", "ann", Anonymous}
CopyCodes == {"COPY-001", "COPY-002"}
CopyFullBodies ==
    {b @@ c : b \in Field("book", BookIds), c \in Field("copy_id", CopyCodes)}
CopyBodies ==
    CopyFullBodies \cup {Empty} \cup Field("book", BookIds) \cup Field("copy_id", CopyCodes)

NextCatalog ==
    \/ \E user \in CatalogPrincipals, pk \in NewCopyIds \ DOMAIN copies,
          data \in CopyBodies : CopyCreate(user, pk, data)
    \/ \E user \in CatalogPrincipals, pk \in AllCopyIds, data \in CopyBodies,
          partial \in BOOLEAN : CopySave(user, pk, data, partial)
    \/ \E user \in CatalogPrincipals, pk \in AllCopyIds : CopyDestroy(user, pk)

SpecCatalog == Init /\ [][NextCatalog]_vars

\* ------------------------------------------------------------- SpecDelete
\* staff lend copies, close and delete loans; staff, members and anonymous
\* callers ask to delete copies and members
DeleteLoanIds == 1..DeleteMaxLoanId
DeleteBodies == FullBodies(CopyIds, Borrowers)
CloseBodies == Field("return_date", {Today})

NextDelete ==
    \/ \E data \in DeleteBodies :
          nextId <= DeleteMaxLoanId /\ LoanCreate("staff", data)
    \/ \E id \in DeleteLoanIds, data \in CloseBodies : LoanUpdate("staff", id, data, TRUE)
    \/ \E id \in DeleteLoanIds : LoanDestroy("staff", id)
    \/ \E user \in Principals, pk \in CopyIds : CopyDestroy(user, pk)
    \/ \E user \in Principals, pk \in MemberIds : MemberDestroy(user, pk)

SpecDelete == Init /\ [][NextDelete]_vars

\* ------------------------------------------------------------- SpecRace
\* two loan-create requests, by staff or by a member, are in flight at once,
\* after staff lent ann one copy short of the limit; two more copies are on
\* the shelf
RaceLent == <<"c1", "c2", "c3", "c4">>
RaceShelf == {"c5", "c6"}
RaceCopyIds == {RaceLent[i] : i \in DOMAIN RaceLent} \cup RaceShelf
RacePrincipals == {"staff", "ann"}
RaceBodies == FullBodies(RaceShelf, Borrowers)

InitRace ==
    /\ members = [m \in MemberIds |-> [is_staff |-> (m = "staff")]]
    /\ copies = [c \in RaceCopyIds |->
                    CopyRow("b1", c, IF c \in RaceShelf THEN "available" ELSE "on_loan")]
    /\ loans = [i \in DOMAIN RaceLent |->
                    NewLoan([book_copy |-> RaceLent[i], member |-> "ann", due_date |-> Today])]
    /\ nextId = Cardinality(DOMAIN RaceLent) + 1
    /\ response = Resp("none", 0, {}, {})
    /\ pending = [r \in Requests |-> Idle]

NextRace ==
    \/ \E r \in Requests, user \in RacePrincipals, data \in RaceBodies :
          RaceValidate(r, user, data)
    \/ \E r \in Requests : RaceSave(r)

SpecRace == InitRace /\ [][NextRace]_vars

\* ------------------------------------------------------------- SpecNonStaff
\* only the members who are not staff at the start send requests to the
\* member endpoints
NextNonStaff ==
    \/ \E user \in Borrowers, pk \in AllMemberIds, data \in MemberBodies,
          partial \in BOOLEAN : MemberUpdate(user, pk, data, partial)
    \/ \E user \in Borrowers, data \in MemberBodies : MemberCreate(user, data)
    \/ \E user \in Borrowers : MemberList(user)
    \/ \E user \in Borrowers, pk \in AllMemberIds : MemberRetrieve(user, pk)

SpecNonStaff == Init /\ [][NextNonStaff]_vars

\* ------------------------------------------------------------- claims
StaffUsers == {u \in DOMAIN members : members[u].is_staff}
NonStaffUsers == {u \in DOMAIN members : ~members[u].is_staff}
Unavailable == {c \in DOMAIN copies : copies[c].status # "available"}
SameRows(o) == o.loans = loans /\ o.copies = copies /\ o.nextId = nextId

\* C1: every member has at most 5 loans with return_date = null, after any
\* sequence of loan create, update and delete requests by staff.
C1_MemberQuota ==
    \A m \in DOMAIN members : Cardinality(OpenLoansOfMember(m)) <= 5

\* C2: no copy has more than one loan with return_date = null, after any
\* sequence of loan requests from a state with no loans and all copies available.
C2_OneOpenLoanPerCopy ==
    \A c \in DOMAIN copies : Cardinality(OpenLoansOfCopy(c)) <= 1

\* C3: when a loan-create request succeeds, the resulting state holds the new
\* Loan row, with the copy and member of the request, and that copy's status
\* is on_loan.
C3_CreateSuccess ==
    /\ (response.op = "create" /\ response.status = 201) =>
          /\ response.body # {}
          /\ \A id \in response.body :
                /\ id \in DOMAIN loans
                /\ copies[loans[id].book_copy].status = "on_loan"
    /\ \A user \in MemberIds, data \in SpecBodies :
          LET o == create(user, data)
          IN  o.response.status = 201 =>
                /\ DOMAIN o.loans = DOMAIN loans \cup o.response.body
                /\ \A id \in o.response.body :
                      /\ id \notin DOMAIN loans
                      /\ o.loans[id].book_copy = data.book_copy
                      /\ o.loans[id].member = data.member
                      /\ o.copies[data.book_copy].status = "on_loan"

C3_Witness ==
    /\ response.op = "create" /\ response.status = 201
    /\ \E id \in response.body : copies[loans[id].book_copy].status = "on_loan"

\* C4 as written: a staff request to create a loan against a copy that is
\* on_loan, in maintenance or lost is rejected with a validation error on the
\* book_copy field, and the loans and the copies' statuses are unchanged.
C4_Original ==
    \A user \in StaffUsers, data \in CopiesBodies :
        ("book_copy" \in DOMAIN data /\ data.book_copy \in Unavailable) =>
            LET o == create(user, data)
            IN  /\ o.response.status = 400
                /\ "book_copy" \in o.response.errors
                /\ SameRows(o)

\* the fields of a create body pass the field-level validators
WellFormed(data) ==
    /\ {"book_copy", "member", "due_date"} \subseteq DOMAIN data
    /\ data.book_copy \in DOMAIN copies /\ data.member \in DOMAIN members
    /\ "loan_date" \in DOMAIN data =>
          (data.loan_date \in 0..Today /\ data.due_date >= data.loan_date)
    /\ "return_date" \in DOMAIN data => data.return_date \in {None} \cup 0..Today

\* C4 amended: such a request is always rejected (400) and leaves the loans
\* and the copies' statuses unchanged; the error is on the book_copy field
\* whenever the fields of the body pass the field-level validators.
C4_UnavailableCopy ==
    \A user \in StaffUsers, data \in CopiesBodies :
        ("book_copy" \in DOMAIN data /\ data.book_copy \in Unavailable) =>
            LET o == create(user, data)
            IN  /\ o.response.status = 400
                /\ o.response.errors # {}
                /\ WellFormed(data) => o.response.errors = {"book_copy"}
                /\ SameRows(o)

C4_Witness ==
    /\ response = Resp("create", 400, {"book_copy"}, {})
    /\ copies["c1"].status = "maintenance"
    /\ copies["c2"].status = "lost"

\* C5 as written: for a member with 5 or more open loans, a staff request to
\* create a further loan for that member is rejected with an error naming the
\* member field, whatever the status of the requested copy, and no loan is added.
C5_Original ==
    \A user \in StaffUsers, data \in QuotaBodies :
        ("member" \in DOMAIN data
            /\ Cardinality(OpenLoansOfMember(data.member)) >= 5) =>
            LET o == create(user, data)
            IN  /\ o.response.status = 400
                /\ "member" \in o.response.errors
                /\ o.loans = loans

\* C5 amended: such a request is always rejected (400) and adds no loan; the
\* error names the member field when the body is well formed and the
\* requested copy is available, and the book_copy field (only) when the body
\* is well formed and the copy is not available.
C5_QuotaReached ==
    \A user \in StaffUsers, data \in QuotaBodies :
        ("member" \in DOMAIN data
            /\ Cardinality(OpenLoansOfMember(data.member)) >= 5) =>
            LET o == create(user, data)
            IN  /\ o.response.status = 400
                /\ SameRows(o)
                /\ WellFormed(data) =>
                      o.response.errors =
                          IF data.book_copy \in Unavailable
                          THEN {"book_copy"} ELSE {"member"}

C5_Witness ==
    /\ response = Resp("create", 400, {"member"}, {})
    /\ Cardinality(OpenLoansOfMember("ann")) = 5
    /\ copies["c1"].status = "available"

\* C6: closing an open loan (setting its return_date) sets the copy's status
\* back to available, and a second close of the same, already-closed loan
\* fails and leaves the copy's status and the loan unchanged.
C6_CloseOnce ==
    \A id \in DOMAIN loans, data \in SpecBodies, partial \in BOOLEAN :
        ("return_date" \in DOMAIN data /\ data.return_date # None) =>
            LET o == update("staff", id, data, partial)
            IN  IF loans[id].return_date = None
                THEN o.response.status = 200 =>
                        o.copies[o.loans[id].book_copy].status = "available"
                ELSE o.response.status = 400 /\ SameRows(o)

\* C7: closing a loan with a return_date earlier than that loan's loan_date
\* fails, and the loan's return_date stays unset (stated for open loans whose
\* due_date is not before their loan_date, and requests that leave loan_date
\* alone).
C7_ReturnNotBeforeLoan ==
    \A id \in OpenLoans, data \in DateBodies, partial \in BOOLEAN :
        ("return_date" \in DOMAIN data /\ data.return_date # None
            /\ "loan_date" \notin DOMAIN data
            /\ loans[id].due_date >= loans[id].loan_date
            /\ data.return_date < loans[id].loan_date) =>
            LET o == update("staff", id, data, partial)
            IN  o.response.status = 400 /\ o.loans[id].return_date = None

\* C8: every loan persisted through the API has due_date >= loan_date.
C8_DueNotBeforeLoan ==
    \A id \in DOMAIN loans : loans[id].due_date >= loans[id].loan_date

\* C9: a loan create, update, partial update or delete request from an
\* authenticated non-staff principal is denied with 403, whatever the body
\* and whoever the loan's member is, and the loans and copies are unchanged.
C9_NonStaffDenied ==
    \A user \in NonStaffUsers :
        /\ \A data \in SpecBodies :
              LET o == create(user, data)
              IN  o.response.status = 403 /\ SameRows(o)
        /\ \A id \in LoanIds, data \in SpecBodies, partial \in BOOLEAN :
              LET o == update(user, id, data, partial)
              IN  o.response.status = 403 /\ SameRows(o)
        /\ \A id \in LoanIds :
              LET o == destroy(user, id)
              IN  o.response.status = 403 /\ SameRows(o)

C9_Witness ==
    /\ response.status = 403
    /\ response.op \in {"update", "partial_update", "destroy"}
    /\ \E a, b \in DOMAIN loans : loans[a].member = "ann" /\ loans[b].member = "bob"

\* C10: the loans a non-staff principal can list or retrieve are exactly the
\* loans whose member is that principal; a staff principal can list and
\* retrieve every loan.
Visible(user) ==
    IF members[user].is_staff THEN DOMAIN loans
    ELSE {id \in DOMAIN loans : loans[id].member = user}

C10_LoanVisibility ==
    \A user \in DOMAIN members :
        /\ list(user).response = Resp("list", 200, {}, Visible(user))
        /\ \A id \in LoanIds :
              retrieve(user, id).response =
                  IF id \in Visible(user) THEN Resp("retrieve", 200, {}, {id})
                  ELSE Resp("retrieve", 404, {}, {})

C10_Witness ==
    /\ response.op = "list" /\ response.status = 200
    /\ response.body # {} /\ response.body # DOMAIN loans
    /\ \E id \in DOMAIN loans : loans[id].member = "bob"

\* the Member records a request reads (the body of its response) or writes
\* (the rows it inserts, changes or removes)
Touched(o) ==
    o.response.body
    \cup {m \in DOMAIN members \cup DOMAIN o.members :
            \/ m \notin DOMAIN members
            \/ m \notin DOMAIN o.members
            \/ members[m] # o.members[m]}

Denied(o) == o.response.status \in {401, 403, 404}

\* C11: every member list, retrieve, create, update or delete request by a
\* non-staff principal either is denied or touches no Member record other
\* than the principal's own; a staff principal can list, retrieve, update and
\* delete every Member record.
C11_OwnRecordOnly ==
    /\ \A user \in NonStaffUsers :
          /\ Touched(member_list(user)) \subseteq {user}
          /\ \A data \in MemberBodies :
                LET o == member_create(user, data)
                IN  Denied(o) \/ Touched(o) \subseteq {user}
          /\ \A pk \in AllMemberIds :
                /\ LET o == member_retrieve(user, pk)
                   IN  Denied(o) \/ Touched(o) \subseteq {user}
                /\ LET o == member_destroy(user, pk)
                   IN  Denied(o) \/ Touched(o) \subseteq {user}
                /\ \A data \in MemberBodies, partial \in BOOLEAN :
                      LET o == member_update(user, pk, data, partial)
                      IN  Denied(o) \/ Touched(o) \subseteq {user}
    /\ \A user \in StaffUsers :
          /\ member_list(user).response.body = DOMAIN members
          /\ \A pk \in DOMAIN members :
                /\ ~Denied(member_retrieve(user, pk))
                /\ ~Denied(member_destroy(user, pk))
                /\ \A data \in MemberBodies, partial \in BOOLEAN :
                      ~Denied(member_update(user, pk, data, partial))

\* a copy other than instance has this copy_id in this book
Conflict(book, copy_id, instance) ==
    \E c \in DOMAIN copies \ {instance} :
        copies[c].book = book /\ copies[c].copy_id = copy_id

\* C12: a staff request to create or update a BookCopy is rejected with a
\* conflict on copy_id exactly when a different BookCopy of the same Book
\* already has that copy_id (the record being updated is not counted);
\* otherwise it is accepted, so that copies of two different Books may have
\* the same copy_id.
C12_CopyIdPerBook ==
    \A user \in StaffUsers, data \in CopyFullBodies :
        /\ \A pk \in NewCopyIds \ DOMAIN copies :
              LET o == copy_create(user, pk, data)
              IN  IF Conflict(data.book, data.copy_id, NoInstance)
                  THEN o.response = Resp("copy_create", 400, {"copy_id"}, {})
                       /\ SameRows(o)
                  ELSE o.response.status = 201
                       /\ o.copies[pk].book = data.book
                       /\ o.copies[pk].copy_id = data.copy_id
        /\ \A pk \in DOMAIN copies, partial \in BOOLEAN :
              LET o == copy_save(user, pk, data, partial)
              IN  IF Conflict(data.book, data.copy_id, pk)
                  THEN o.response = Resp("copy_save", 400, {"copy_id"}, {})
                       /\ SameRows(o)
                  ELSE o.response.status = 200
                       /\ o.copies[pk].book = data.book
                       /\ o.copies[pk].copy_id = data.copy_id

\* C13: a request to delete a BookCopy or a Member that at least one Loan
\* refers to, open or closed, is rejected whoever sends it, and the copy or
\* member and every loan stay in the store; so every loan's copy and member
\* are rows of the store.
C13_ProtectedDelete ==
    /\ \A pk \in DOMAIN copies, user \in Principals :
          CopyProtectedBy(pk) # {} =>
              LET o == copy_destroy(user, pk)
              IN  o.response.status >= 400 /\ SameRows(o)
    /\ \A pk \in DOMAIN members, user \in Principals :
          MemberProtectedBy(pk) # {} =>
              LET o == member_destroy(user, pk)
              IN  o.response.status >= 400 /\ o.members = members
    /\ \A id \in DOMAIN loans :
          loans[id].book_copy \in DOMAIN copies /\ loans[id].member \in DOMAIN members

\* staff were refused the delete of a copy whose loans are all closed
C13_Witness ==
    /\ response = Resp("copy_destroy", 500, {}, {})
    /\ loans # Empty
    /\ OpenLoans = {}
    /\ \E pk \in DOMAIN members : MemberProtectedBy(pk) # {}

\* the requests answered 201
Created == {r \in Requests : pending[r].stage = "done" /\ pending[r].status = 201}

\* C14: loan creation is a check and then a write with nothing joining them:
\* a request that passed validation inserts its loan whatever other requests
\* wrote in between, so every request answered 201 has its own open loan, two
\* such requests on one copy leave two open loans on it, and ann, who had 4
\* open loans, has one more for every such request.
C14_CheckThenWrite ==
    /\ \A r \in Requests :
          pending[r].stage = "validated" =>
              LET o == race_save(pending[r].data)
              IN  /\ o.response = Resp("create", 201, {}, {nextId})
                  /\ DOMAIN o.loans = DOMAIN loans \cup {nextId}
                  /\ o.loans[nextId] = NewLoan(pending[r].data)
    /\ \A r \in Created :
          /\ pending[r].id \in OpenLoansOfCopy(pending[r].data.book_copy)
          /\ pending[r].id \in OpenLoansOfMember(pending[r].data.member)
    /\ \A r1, r2 \in Created : r1 # r2 => pending[r1].id # pending[r2].id
    /\ Cardinality(OpenLoansOfMember("ann")) =
          Cardinality(DOMAIN RaceLent)
              + Cardinality({r \in Created : pending[r].data.member = "ann"})

\* both requests were answered 201 for the same copy and for ann
C14_Witness ==
    /\ Created = Requests
    /\ \A r \in Requests : pending[r].data.book_copy = "c5" /\ pending[r].data.member = "ann"
    /\ Cardinality(OpenLoansOfCopy("c5")) = 2
    /\ Cardinality(OpenLoansOfMember("ann")) = 6

\* the members who are staff before any request
InitialStaff == {"staff"}

\* C15: while only principals who were not staff at the start send member
\* create, update and partial update requests, no member other than the
\* initial staff has is_staff = true: neither a member who was not staff nor
\* a member they created.
C15_NoEscalation ==
    \A m \in DOMAIN members : members[m].is_staff => m \in InitialStaff

====
